---- MODULE Spec2Model ----
(***************************************************************************)
(* A model of src/src/treedir.ts (snowfs): the TreeEntry / TreeFile /      *)
(* TreeDir object graph kept in an explicit heap (node objects and stats   *)
(* objects have identities), TreeDir.clone, TreeDir.merge, TreeDir.remove, *)
(* the promise fan-out of constructTree and TreeFile.isFileModified.       *)
(***************************************************************************)
EXTENDS Integers, Sequences, FiniteSets, TLC

VARIABLES
  heap,      \* the object heap: [nodes: Seq(TreeEntry), stats: Seq(StatsSubset)]
  op,        \* the operation about to be called ("callMerge", "callClone"), that
             \* has run ("merge", "clone", "cloneRemove") or is running ("build",
             \* "detect")
  result,    \* the node id the operation returned (NULL before)
  \* merge / clone
  heap0,     \* the heap as it was before the operation under study was called
  srcRoot,   \* the tree handed over as `source` (a node id of heap)
  tgtRoot,   \* the tree handed over as `target` (a node id of heap)
  \* constructTree
  fs,        \* the directory on disk: [d: path -> 0 (directory) | size of a file,
             \*                         junk: listings also hold the skipped names]
  tree,      \* the root TreeDir of the top-level constructTree call
  walkP,     \* per TreeDir being walked, the state of its constructTree promise
  statP,     \* per path whose stat was issued, the promise pushed to `promises`
  ioFailed,  \* the paths whose readdir or stat has failed so far
  \* isFileModified
  det        \* the call's inputs, position and outcome

mergeVars == <<heap0, srcRoot, tgtRoot>>

buildVars == <<fs, tree, walkP, statP, ioFailed>>

vars == <<heap, op, result, heap0, srcRoot, tgtRoot, fs, tree, walkP, statP,
          ioFailed, det>>

(***************************************************************************)
(* Bounds of the model.                                                    *)
(***************************************************************************)
\* the number of entries below the roots of the trees of one call, taken
\* together (also the depth of a tree)
MaxNodes == 4
\* the number of distinct file content hashes
MaxHash == 2

(***************************************************************************)
(* The heap.                                                               *)
(***************************************************************************)
\* `null` / `undefined` as a parent reference
NULL == 0

\* the file names of the model, in directory-listing order
NameSeq == <<"a", "b.t">>

Names == {NameSeq[i] : i \in 1..Len(NameSeq)}

\* path.extname on the last component of a path
extname(path) == IF path # << >> /\ path[Len(path)] = "b.t" THEN ".t" ELSE ""

\* crypto.createHash('sha256') ... update(x) ... digest('hex'): a digest of the
\* concatenation of everything it was updated with.  hashes are flat sequences of
\* tokens; the digest brackets its input, so that it is injective on inputs
EmptyHash == << >>

Sha256Hex(input) == <<-1>> \o input \o <<-2>>

EmptyHeap == [nodes |-> << >>, stats |-> << >>]

NodeOf(H, id) == H.nodes[id]

StatsOf(H, id) == H.stats[H.nodes[id].stats]

isDirectory(H, id) == H.nodes[id].kind = "dir"

isFile(H, id) == H.nodes[id].kind = "file"

\* an object literal { size, ctimeMs, mtimeMs }: a new stats object
NewStats(H, s) ==
  [h |-> [H EXCEPT !.stats = Append(@, s)], ref |-> Len(H.stats) + 1]

\* { ...stats }: a new stats object with the fields of an old one
SpreadStats(H, ref) == NewStats(H, H.stats[ref])

\* new TreeFile(hash, path, stats, ext, parent)
NewTreeFile(H, hash, path, statsRef, ext, parent) ==
  [h |-> [H EXCEPT !.nodes = Append(@,
            [kind |-> "file", hash |-> hash, path |-> path, stats |-> statsRef,
             ext |-> ext, parent |-> parent, children |-> << >>])],
   id |-> Len(H.nodes) + 1]

\* new TreeDir(path, stats, parent): super('', path, stats), children = [].
\* The constructor takes no hash: a new TreeDir always starts with hash ''
\* (the `hash: string` redeclaration of the class emits no initializer under
\* the legacy class-field semantics the code is built with)
NewTreeDir(H, path, statsRef, parent) ==
  [h |-> [H EXCEPT !.nodes = Append(@,
            [kind |-> "dir", hash |-> EmptyHash, path |-> path, stats |-> statsRef,
             ext |-> "", parent |-> parent, children |-> << >>])],
   id |-> Len(H.nodes) + 1]

\* TreeDir.createRootTree
createRootTree(H) ==
  LET s == NewStats(H, [size |-> 0, ctimeMs |-> 0, mtimeMs |-> 0])
  IN  NewTreeDir(s.h, << >>, s.ref, NULL)

SetHash(H, id, hash) == [H EXCEPT !.nodes[id].hash = hash]

SetSize(H, id, size) == [H EXCEPT !.stats[H.nodes[id].stats].size = size]

SetChildren(H, id, kids) == [H EXCEPT !.nodes[id].children = kids]

(***************************************************************************)
(* calculateSizeAndHash, generateSizeAndCaches.                            *)
(***************************************************************************)
RECURSIVE SumSize(_, _)
SumSize(H, items) ==
  IF items = << >> THEN 0
  ELSE StatsOf(H, Head(items)).size + SumSize(H, Tail(items))

RECURSIVE ConcatHash(_, _)
ConcatHash(H, items) ==
  IF items = << >> THEN << >>
  ELSE NodeOf(H, Head(items)).hash \o ConcatHash(H, Tail(items))

calculateSizeAndHash(H, items) ==
  <<SumSize(H, items), Sha256Hex(ConcatHash(H, items))>>

generateSizeAndCaches(H, item) ==
  IF isDirectory(H, item)
  THEN LET calcs == calculateSizeAndHash(H, NodeOf(H, item).children)
       IN  [h |-> SetHash(SetSize(H, item, calcs[1]), item, calcs[2]),
            calcs |-> calcs]
  ELSE [h |-> H, calcs |-> <<StatsOf(H, item).size, NodeOf(H, item).hash>>]

(***************************************************************************)
(* TreeFile.clone, TreeDir.clone.                                          *)
(***************************************************************************)
\* (a clone that leaves the hash of the new File unset)
TreeFileCloneNoHash(H, id, parent) ==
  LET s == SpreadStats(H, NodeOf(H, id).stats)
  IN  NewTreeFile(s.h, EmptyHash, NodeOf(H, id).path, s.ref,
                  NodeOf(H, id).ext, parent)

TreeFileClone(H, id, parent) ==
  LET s == SpreadStats(H, NodeOf(H, id).stats)
  IN  NewTreeFile(s.h, NodeOf(H, id).hash, NodeOf(H, id).path, s.ref,
                  NodeOf(H, id).ext, parent)

RECURSIVE clone(_, _, _)
RECURSIVE CloneChildren(_, _, _, _)

\* this.children.map((c) => c.clone(newTree))
CloneChildren(H, kids, newTree, acc) ==
  IF kids = << >> THEN [h |-> H, ids |-> acc]
  ELSE LET c == clone(H, Head(kids), newTree)
       IN  CloneChildren(c.h, Tail(kids), newTree, Append(acc, c.id))

TreeDirClone(H, id, parent) ==
  LET s  == SpreadStats(H, NodeOf(H, id).stats)
      nt == NewTreeDir(s.h, NodeOf(H, id).path, s.ref, parent)
      cs == CloneChildren(nt.h, NodeOf(H, id).children, nt.id, << >>)
  IN  [h |-> SetChildren(cs.h, nt.id, cs.ids), id |-> nt.id]

clone(H, id, parent) ==
  IF isDirectory(H, id) THEN TreeDirClone(H, id, parent)
  ELSE TreeFileClone(H, id, parent)

(***************************************************************************)
(* TreeDir.merge.                                                          *)
(***************************************************************************)
\* Map.prototype.set on an insertion-ordered map kept as a sequence of
\* [key, val] pairs: an existing key keeps its place
\* (a set that leaves the value of an existing key as it is)
RECURSIVE MapSetKeepFirst(_, _, _)
MapSetKeepFirst(items, key, val) ==
  IF items = << >> THEN <<[key |-> key, val |-> val]>>
  ELSE IF Head(items).key = key THEN items
  ELSE <<Head(items)>> \o MapSetKeepFirst(Tail(items), key, val)

RECURSIVE MapSet(_, _, _)
MapSet(items, key, val) ==
  IF items = << >> THEN <<[key |-> key, val |-> val]>>
  ELSE IF Head(items).key = key THEN <<[key |-> key, val |-> val]>> \o Tail(items)
  ELSE <<Head(items)>> \o MapSet(Tail(items), key, val)

\* Array.from(newItems.values())
MapValues(items) == [i \in 1..Len(items) |-> items[i].val]

\* the loops `for (const child of X.children) { generateSizeAndCaches ... set }`
RECURSIVE CacheLoop(_, _, _)
CacheLoop(H, kids, newItems) ==
  IF kids = << >> THEN [h |-> H, items |-> newItems]
  ELSE LET child == Head(kids)
           g     == generateSizeAndCaches(H, child)
           H2    == SetHash(SetSize(g.h, child, g.calcs[1]), child, g.calcs[2])
       IN  CacheLoop(H2, Tail(kids), MapSet(newItems, NodeOf(H2, child).path, child))

RECURSIVE privateMerge(_, _, _)
RECURSIVE PairLoop(_, _, _, _, _, _)

\* the nested loops over source.children x target.children
PairLoop(H, skids, tkids, i, j, newItems) ==
  IF i > Len(skids) THEN [h |-> H, items |-> newItems]
  ELSE IF j > Len(tkids) THEN PairLoop(H, skids, tkids, i + 1, 1, newItems)
  ELSE IF NodeOf(H, tkids[j]).path = NodeOf(H, skids[i]).path
       THEN LET res == privateMerge(H, skids[i], tkids[j])
            IN  PairLoop(res.h, skids, tkids, i, j + 1,
                         MapSet(newItems, NodeOf(res.h, res.id).path, res.id))
       ELSE PairLoop(H, skids, tkids, i, j + 1, newItems)

privateMerge(H, source, target) ==
  IF isDirectory(H, source) /\ isDirectory(H, target)
  THEN LET l1    == CacheLoop(H, NodeOf(H, source).children, << >>)
           l2    == CacheLoop(l1.h, NodeOf(l1.h, target).children, l1.items)
           l3    == PairLoop(l2.h, NodeOf(l2.h, source).children,
                             NodeOf(l2.h, target).children, 1, 1, l2.items)
           H4    == SetChildren(l3.h, target, MapValues(l3.items))
           calcs == calculateSizeAndHash(H4, NodeOf(H4, target).children)
       IN  [h |-> SetHash(SetSize(H4, target, calcs[1]), target, calcs[2]),
            id |-> target]
  ELSE [h |-> H, id |-> target]

merge(H, source, target) ==
  LET c == clone(H, target, NULL)
  IN  privateMerge(c.h, source, c.id)

(***************************************************************************)
(* TreeDir.remove.                                                         *)
(***************************************************************************)
\* tree.children.filter((value) => !cb(value)) with cb = (e) => e.path === path
FilterOut(H, kids, path) == SelectSeq(kids, LAMBDA c : NodeOf(H, c).path # path)

RECURSIVE remove(_, _, _)
RECURSIVE RemoveLoop(_, _, _)

RemoveLoop(H, kids, path) ==
  IF kids = << >> THEN H
  ELSE IF isDirectory(H, Head(kids))
       THEN RemoveLoop(remove(H, Head(kids), path), Tail(kids), path)
       ELSE RemoveLoop(H, Tail(kids), path)

remove(H, dir, path) ==
  LET H2 == SetChildren(H, dir, FilterOut(H, NodeOf(H, dir).children, path))
  IN  RemoveLoop(H2, NodeOf(H2, dir).children, path)

(***************************************************************************)
(* The trees the operations are called with.  A tree is described by the   *)
(* set of its paths, each a Directory (0) or a File with a content hash    *)
(* (1..MaxHash); it is either sealed (every Directory's hash and size are  *)
(* derived from its children) or as constructTree leaves it (Directory     *)
(* hashes unset, sizes summed).                                            *)
(***************************************************************************)
PathUniverse == UNION {[1..n -> Names] : n \in 1..MaxNodes}

ParentPath(p) == SubSeq(p, 1, Len(p) - 1)

Extend(P) ==
  {P \cup {q} : q \in {q \in PathUniverse :
                          q \notin P /\ (Len(q) = 1 \/ ParentPath(q) \in P)}}

RECURSIVE ShapesOf(_)
ShapesOf(k) ==
  IF k = 0 THEN {{}}
  ELSE LET prev == ShapesOf(k - 1) IN prev \cup UNION {Extend(P) : P \in prev}

HasChild(P, p) == \E q \in P : Len(q) = Len(p) + 1 /\ ParentPath(q) = p

\* the trees of at most k entries
TreeDescsOf(k) ==
  UNION {{d \in [P -> 0..MaxHash] : \A p \in P : HasChild(P, p) => d[p] = 0} :
         P \in ShapesOf(k)}

TreesUpTo == [k \in 0..MaxNodes |-> TreeDescsOf(k)]

TreeDescs == TreesUpTo[MaxNodes]

\* the entries of directory p, in listing order
ChildPaths(d, p) ==
  SelectSeq([i \in 1..Len(NameSeq) |-> Append(p, NameSeq[i])],
            LAMBDA q : q \in DOMAIN d)

RECURSIVE BuildEntry(_, _, _, _, _)
RECURSIVE BuildChildren(_, _, _, _, _, _)

BuildChildren(H, d, ps, parent, sealed, acc) ==
  IF ps = << >> THEN [h |-> H, ids |-> acc]
  ELSE LET c == BuildEntry(H, d, Head(ps), parent, sealed)
       IN  BuildChildren(c.h, d, Tail(ps), parent, sealed, Append(acc, c.id))

\* a Directory with its children set; sealed, or with only its size summed
FillDir(H, d, p, dir, sealed) ==
  LET cs == BuildChildren(H, d, ChildPaths(d, p), dir, sealed, << >>)
      H2 == SetChildren(cs.h, dir, cs.ids)
  IN  [h |-> IF sealed THEN generateSizeAndCaches(H2, dir).h
             ELSE SetSize(H2, dir, SumSize(H2, cs.ids)),
       id |-> dir]

BuildEntry(H, d, p, parent, sealed) ==
  IF d[p] > 0
  THEN LET s == NewStats(H, [size |-> d[p], ctimeMs |-> d[p], mtimeMs |-> d[p]])
       IN  NewTreeFile(s.h, <<d[p]>>, p, s.ref, extname(p), parent)
  ELSE LET s  == NewStats(H, [size |-> 0, ctimeMs |-> 0, mtimeMs |-> 0])
           nt == NewTreeDir(s.h, p, s.ref, parent)
       IN  FillDir(nt.h, d, p, nt.id, sealed)

BuildTree(H, d, sealed) ==
  LET r == createRootTree(H) IN FillDir(r.h, d, << >>, r.id, sealed)

(***************************************************************************)
(* The merge / clone / remove state machine.                               *)
(***************************************************************************)
\* the number of entries a tree description holds
NodesIn(d) == Cardinality(DOMAIN d)

\* the state after the trees of one call were built: merge(source, target) with
\* two trees, merge(T, T), or T.clone()
InitMerge ==
  \E call \in {"callMerge", "callClone"}, same \in BOOLEAN, ds \in TreeDescs :
    \E dt \in IF same THEN {ds} ELSE TreesUpTo[MaxNodes - NodesIn(ds)],
       ss \in BOOLEAN :
      \E st \in IF same THEN {ss} ELSE BOOLEAN :
        /\ call = "callClone" => same
        /\ LET s == BuildTree(EmptyHeap, ds, ss)
               t == IF same THEN s ELSE BuildTree(s.h, dt, st)
           IN  /\ heap = t.h
               /\ heap0 = t.h
               /\ srcRoot = IF call = "callClone" THEN NULL ELSE s.id
               /\ tgtRoot = t.id
        /\ op = call
        /\ result = NULL
        /\ fs = [d |-> << >>, junk |-> FALSE]
        /\ tree = NULL
        /\ walkP = << >>
        /\ statP = << >>
        /\ ioFailed = {}
        /\ det = << >>

\* TreeDir.merge(source, target)
Merge ==
  /\ op = "callMerge"
  /\ LET r == merge(heap, srcRoot, tgtRoot)
     IN  /\ heap' = r.h
         /\ result' = r.id
  /\ op' = "merge"
  /\ UNCHANGED <<mergeVars, buildVars, det>>

\* target.clone()
Clone ==
  /\ op = "callClone"
  /\ LET r == clone(heap, tgtRoot, NULL)
     IN  /\ heap' = r.h
         /\ result' = r.id
  /\ op' = "clone"
  /\ UNCHANGED <<mergeVars, buildVars, det>>

\* TreeDir.remove(result, (e) => e.path === path), called on a clone
Remove ==
  /\ op = "clone"
  /\ \E path \in PathUniverse :
       heap' = remove(heap, result, path)
  /\ op' = "cloneRemove"
  /\ UNCHANGED <<mergeVars, buildVars, det, result>>

NextMerge == Merge \/ Clone \/ Remove

SpecMerge == InitMerge /\ [][NextMerge]_vars

(***************************************************************************)
(* Observations on trees.                                                  *)
(***************************************************************************)
RECURSIVE Reach(_, _)
RECURSIVE ReachAll(_, _)

ReachAll(H, kids) ==
  IF kids = << >> THEN {} ELSE Reach(H, Head(kids)) \cup ReachAll(H, Tail(kids))

\* the node objects reachable from a node through children lists
Reach(H, id) == {id} \cup ReachAll(H, NodeOf(H, id).children)

\* the node objects that existed before the call: those of source and target
InputNodes == 1..Len(heap0.nodes)

InputStats == 1..Len(heap0.stats)

\* the hashes of the Files a tree holds at path p
FileHashesAt(H, root, p) ==
  {NodeOf(H, n).hash : n \in {m \in Reach(H, root) :
                                 isFile(H, m) /\ NodeOf(H, m).path = p}}

IsFileAt(H, root, p) == FileHashesAt(H, root, p) # {}

IsDirAt(H, root, p) ==
  \E n \in Reach(H, root) : isDirectory(H, n) /\ NodeOf(H, n).path = p

\* p itself and the directories above it
AncestorsOrSelf(p) == {SubSeq(p, 1, k) : k \in 1..Len(p)}

\* a Directory whose size and hash are those its children give
ValidDerived(H, n) ==
  /\ StatsOf(H, n).size = SumSize(H, NodeOf(H, n).children)
  /\ NodeOf(H, n).hash = Sha256Hex(ConcatHash(H, NodeOf(H, n).children))

Sealed(H, root) == \A n \in Reach(H, root) : isDirectory(H, n) => ValidDerived(H, n)

\* two nodes agree in kind, path, hash and stats
SameEntry(H1, a, H2, b) ==
  /\ NodeOf(H1, a).kind = NodeOf(H2, b).kind
  /\ NodeOf(H1, a).path = NodeOf(H2, b).path
  /\ NodeOf(H1, a).hash = NodeOf(H2, b).hash
  /\ StatsOf(H1, a) = StatsOf(H2, b)
  /\ Len(NodeOf(H1, a).children) = Len(NodeOf(H2, b).children)

\* two trees agree node by node, children taken in order
RECURSIVE SameTree(_, _, _, _)
SameTree(H1, a, H2, b) ==
  /\ SameEntry(H1, a, H2, b)
  /\ \A i \in 1..Len(NodeOf(H1, a).children) :
       SameTree(H1, NodeOf(H1, a).children[i], H2, NodeOf(H2, b).children[i])

\* every input node object and stats object is as it was before the call
InputsUnchanged ==
  /\ \A n \in InputNodes : heap.nodes[n] = heap0.nodes[n]
  /\ \A r \in InputStats : heap.stats[r] = heap0.stats[r]

\* every child of every Directory of a tree points back at that Directory
ParentsAgree(H, root) ==
  \A d \in Reach(H, root) :
    \A i \in 1..Len(NodeOf(H, d).children) :
      NodeOf(H, NodeOf(H, d).children[i]).parent = d

(***************************************************************************)
(* C1.  TreeDir.merge(source, target) mutates neither input, and the tree  *)
(* it returns shares no node object with source or target.                 *)
(***************************************************************************)
C1_MergeLeavesInputsAlone ==
  op = "merge" =>
    /\ InputsUnchanged
    /\ Reach(heap, result) \cap InputNodes = {}

(***************************************************************************)
(* C2.  merge is a union with target precedence.  As claimed: every File   *)
(* of target is in the result with target's hash, every File that is only  *)
(* in source is in the result with source's hash, and the result holds no  *)
(* other File.                                                             *)
(***************************************************************************)
TargetFilesKept ==
  \A p \in PathUniverse :
    IsFileAt(heap0, tgtRoot, p) =>
      FileHashesAt(heap, result, p) = FileHashesAt(heap0, tgtRoot, p)

NoInventedFiles ==
  \A p \in PathUniverse :
    IsFileAt(heap, result, p) =>
      IsFileAt(heap0, srcRoot, p) \/ IsFileAt(heap0, tgtRoot, p)

C2_Original ==
  op = "merge" =>
    /\ TargetFilesKept
    /\ NoInventedFiles
    /\ \A p \in PathUniverse :
         (IsFileAt(heap0, srcRoot, p) /\ ~IsFileAt(heap0, tgtRoot, p)) =>
           FileHashesAt(heap, result, p) = FileHashesAt(heap0, srcRoot, p)

\* target holds an entry of the other kind on the way to a File p of source:
\* a File where source has a Directory above p, or a Directory at p
KindCollision(p) ==
  \/ IsDirAt(heap0, tgtRoot, p)
  \/ \E q \in AncestorsOrSelf(p) : q # p /\ IsFileAt(heap0, tgtRoot, q)

(***************************************************************************)
(* C2, amended.  As C2, but a File that is only in source is kept only     *)
(* when target holds no entry of the other kind at its path or above it    *)
(* (no Directory at the path, no File at an ancestor of the path).         *)
(***************************************************************************)
C2_MergeIsUnion ==
  op = "merge" =>
    /\ TargetFilesKept
    /\ NoInventedFiles
    /\ \A p \in PathUniverse :
         (IsFileAt(heap0, srcRoot, p) /\ ~IsFileAt(heap0, tgtRoot, p)
            /\ ~KindCollision(p)) =>
           FileHashesAt(heap, result, p) = FileHashesAt(heap0, srcRoot, p)

\* a merge in which a File two levels down is taken from source, into a
\* directory of both trees that holds another File in target
C2_Witness ==
  /\ op = "merge"
  /\ \E p \in PathUniverse, q \in PathUniverse :
       /\ Len(p) = 2 /\ Len(q) = 2 /\ ParentPath(p) = ParentPath(q)
       /\ IsFileAt(heap0, srcRoot, p) /\ ~IsFileAt(heap0, tgtRoot, p)
       /\ ~KindCollision(p)
       /\ IsFileAt(heap0, tgtRoot, q) /\ ~IsFileAt(heap0, srcRoot, q)
       /\ FileHashesAt(heap, result, q) = FileHashesAt(heap0, tgtRoot, q)
       /\ FileHashesAt(heap, result, p) = FileHashesAt(heap0, srcRoot, p)

(***************************************************************************)
(* C5.  Merging a tree with itself is the identity.  As claimed: for every *)
(* tree T whose Files carry hashes, merge(T, T) equals T in shape, hash    *)
(* and size at every node.                                                 *)
(***************************************************************************)
C5_Original ==
  (op = "merge" /\ srcRoot = tgtRoot) =>
    SameTree(heap0, tgtRoot, heap, result)

(***************************************************************************)
(* C5, amended.  For every tree T in which every Directory is in its valid *)
(* derived state (size and hash those its children give), merge(T, T)      *)
(* equals T in shape, hash and size at every node.                         *)
(***************************************************************************)
C5_MergeSelfIsIdentity ==
  (op = "merge" /\ srcRoot = tgtRoot /\ Sealed(heap0, tgtRoot)) =>
    SameTree(heap0, tgtRoot, heap, result)

\* a sealed tree with a file next to a directory that holds a file has been
\* merged with itself
C5_Witness ==
  /\ op = "merge" /\ srcRoot = tgtRoot /\ Sealed(heap0, tgtRoot)
  /\ \E n \in Reach(heap, result) : isFile(heap, n) /\ Len(NodeOf(heap, n).path) = 2
  /\ \E n \in Reach(heap, result) : isFile(heap, n) /\ Len(NodeOf(heap, n).path) = 1

(***************************************************************************)
(* C6.  clone(T) is node by node another object with another stats record, *)
(* equal to its counterpart in hash, path, stats and children count, and   *)
(* removing children of the clone leaves T as it was.                      *)
(***************************************************************************)
C6_CloneEqualAndIndependent ==
  /\ op \in {"clone", "cloneRemove"} =>
       /\ InputsUnchanged
       /\ Reach(heap, result) \cap InputNodes = {}
       /\ \A n \in Reach(heap, result) : NodeOf(heap, n).stats \notin InputStats
  /\ op = "clone" => SameTree(heap0, tgtRoot, heap, result)

(***************************************************************************)
(* C8.  Every Directory of the tree merge returns is in its valid derived  *)
(* state: its size is the sum of its children's sizes and its hash the     *)
(* digest of its children's hashes in children order.                      *)
(***************************************************************************)
C8_MergeResultDerived ==
  op = "merge" => Sealed(heap, result)

(***************************************************************************)
(* C10.  In the tree returned by clone and by merge, every child of every  *)
(* Directory has that Directory as its parent.                             *)
(***************************************************************************)
C10_ParentsAgree ==
  op \in {"merge", "clone"} => ParentsAgree(heap, result)

(***************************************************************************)
(* constructTree.  One action per I/O completion; the promise reactions    *)
(* that follow a completion (the .then callbacks, Promise.all, the         *)
(* adoption of a sub-walk's promise) run as microtasks before the next     *)
(* completion is delivered, and are part of the action.                    *)
(***************************************************************************)
SkipNames == {".snow", ".git", ".DS_Store", "thumbs.db"}

\* io.readdir(dirPath): the names of the directory, in listing order
Readdir(p) ==
  LET real == SelectSeq(NameSeq, LAMBDA n : Append(p, n) \in DOMAIN fs.d)
  IN  IF fs.junk THEN <<".snow", ".git">> \o real \o <<".DS_Store", "thumbs.db">>
      ELSE real

\* the entries the loop issues a stat for
Listed(p) == SelectSeq(Readdir(p), LAMBDA n : n \notin SkipNames)

\* io.stat(absPath)
FsStat(p) ==
  IF p \in DOMAIN fs.d /\ fs.d[p] = 0
  THEN [isDir |-> TRUE, size |-> 7, ctimeMs |-> 0, mtimeMs |-> 0]
  ELSE [isDir |-> FALSE, size |-> IF p \in DOMAIN fs.d THEN fs.d[p] ELSE 1,
        ctimeMs |-> 0, mtimeMs |-> 0]

\* (the state of such a promise had the callback not returned the sub-walk)
SubWalkNotAwaited == "resolved"

\* the state of the promise of an entry whose stat callback returned
\* constructTree(absPath, subtree, root): it follows the sub-walk
SubWalkEntryState == "sub"

EntriesOf(W, d) == {p \in DOMAIN W.statP : W.statP[p].parent = d}

\* Promise.all(promises) of directory d is fulfilled
AllResolved(W, d) == \A p \in EntriesOf(W, d) : W.statP[p].st = "resolved"

\* the last .then of constructTree and what its fulfilment sets off: the size
\* of d is summed, d's promise is fulfilled, the entry that follows it is
\* fulfilled, and the enclosing Promise.all is looked at again
RECURSIVE Settle(_, _)
Settle(W, d) ==
  IF W.walkP[d] = "stats" /\ AllResolved(W, d)
  THEN LET p  == NodeOf(W.heap, d).path
           W2 == [heap  |-> SetSize(W.heap, d,
                                    SumSize(W.heap, NodeOf(W.heap, d).children)),
                  walkP |-> [W.walkP EXCEPT ![d] = "resolved"],
                  statP |-> IF d = tree THEN W.statP
                            ELSE [W.statP EXCEPT ![p].st = "resolved"]]
       IN  IF d = tree THEN W2 ELSE Settle(W2, W.statP[p].parent)
  ELSE W

\* (a rejection that stays with d: the sub-walk's error is swallowed)
RejectUpLocal(W, d) ==
  IF W.walkP[d] \in {"readdir", "stats"}
  THEN [W EXCEPT !.walkP[d] = "rejected"]
  ELSE W

\* the rejection of d's promise chain and what it sets off: the entry that
\* follows d is rejected, which rejects the enclosing Promise.all
RECURSIVE RejectUp(_, _)
RejectUp(W, d) ==
  IF W.walkP[d] \in {"readdir", "stats"}
  THEN LET p  == NodeOf(W.heap, d).path
           W2 == [W EXCEPT !.walkP[d] = "rejected"]
       IN  IF d = tree \/ W.statP[p].st # "sub" THEN W2
           ELSE RejectUp([W2 EXCEPT !.statP[p].st = "rejected"], W.statP[p].parent)
  ELSE W

Walk == [heap |-> heap, walkP |-> walkP, statP |-> statP]

SetWalk(W) ==
  /\ heap' = W.heap
  /\ walkP' = W.walkP
  /\ statP' = W.statP
  /\ result' = IF W.walkP[tree] = "resolved" THEN tree ELSE NULL

\* the readdir callback of directory d, and the first .then: one stat per
\* listed entry
ReaddirOk(W, d) ==
  LET p    == NodeOf(W.heap, d).path
      ents == Listed(p)
      new  == {Append(p, ents[i]) : i \in 1..Len(ents)}
  IN  Settle([W EXCEPT !.walkP[d] = "stats",
                       !.statP = [q \in new |->
                                    [parent |-> d, st |-> "pending", node |-> NULL]]
                                 @@ @],
             d)

\* the stat callback of a directory entry
StatOkDir(W, p, stat) ==
  LET d  == W.statP[p].parent
      s  == NewStats(W.heap, [size |-> stat.size, ctimeMs |-> stat.ctimeMs,
                              mtimeMs |-> stat.mtimeMs])
      nt == NewTreeDir(s.h, p, s.ref, d)
      H2 == SetChildren(nt.h, d, Append(NodeOf(nt.h, d).children, nt.id))
  IN  Settle([heap  |-> H2,
              walkP |-> (nt.id :> "readdir") @@ W.walkP,
              statP |-> [W.statP EXCEPT ![p].st = SubWalkEntryState,
                                        ![p].node = nt.id]],
             d)

\* the stat callback of a file entry
StatOkFile(W, p, stat) ==
  LET d  == W.statP[p].parent
      s  == NewStats(W.heap, [size |-> stat.size, ctimeMs |-> stat.ctimeMs,
                              mtimeMs |-> stat.mtimeMs])
      nf == NewTreeFile(s.h, EmptyHash, p, s.ref, extname(p), d)
      H2 == SetChildren(nf.h, d, Append(NodeOf(nf.h, d).children, nf.id))
  IN  Settle([heap  |-> H2,
              walkP |-> W.walkP,
              statP |-> [W.statP EXCEPT ![p].st = "resolved", ![p].node = nf.id]],
             d)

InitBuild ==
  \E d \in TreeDescs, junk \in BOOLEAN :
    /\ fs = [d |-> d, junk |-> junk]
    /\ LET r == createRootTree(EmptyHeap)
       IN  /\ heap = r.h
           /\ tree = r.id
           /\ walkP = (r.id :> "readdir")
    /\ statP = << >>
    /\ ioFailed = {}
    /\ op = "build"
    /\ result = NULL
    /\ heap0 = EmptyHeap
    /\ srcRoot = NULL
    /\ tgtRoot = NULL
    /\ det = << >>

\* io.readdir calls back with the entries
ReaddirDone ==
  /\ op = "build"
  /\ \E d \in DOMAIN walkP :
       /\ walkP[d] = "readdir"
       /\ SetWalk(ReaddirOk(Walk, d))
  /\ UNCHANGED <<op, mergeVars, fs, tree, ioFailed, det>>

\* io.readdir calls back with an error
ReaddirFail ==
  /\ op = "build"
  /\ \E d \in DOMAIN walkP :
       /\ walkP[d] = "readdir"
       /\ SetWalk(RejectUp(Walk, d))
       /\ ioFailed' = ioFailed \cup {NodeOf(heap, d).path}
  /\ UNCHANGED <<op, mergeVars, fs, tree, det>>

\* io.stat of an entry is fulfilled
StatDone ==
  /\ op = "build"
  /\ \E p \in DOMAIN statP :
       /\ statP[p].st = "pending"
       /\ LET stat == FsStat(p)
          IN  SetWalk(IF stat.isDir THEN StatOkDir(Walk, p, stat)
                      ELSE StatOkFile(Walk, p, stat))
  /\ UNCHANGED <<op, mergeVars, fs, tree, ioFailed, det>>

\* io.stat of an entry is rejected
StatFail ==
  /\ op = "build"
  /\ \E p \in DOMAIN statP :
       /\ statP[p].st = "pending"
       /\ SetWalk(RejectUp([Walk EXCEPT !.statP[p].st = "rejected"],
                           statP[p].parent))
       /\ ioFailed' = ioFailed \cup {p}
  /\ UNCHANGED <<op, mergeVars, fs, tree, det>>

NextBuild == ReaddirDone \/ ReaddirFail \/ StatDone \/ StatFail

SpecBuild == InitBuild /\ [][NextBuild]_vars

(***************************************************************************)
(* TreeFile.isFileModified.  Times are in tenths of a millisecond.         *)
(***************************************************************************)
ONLY_SIZE_AND_MKTIME == 1

SIZE_AND_HASH_FOR_SMALL_FILES == 2

SIZE_AND_HASH_FOR_ALL_FILES == 3

\* MB20 of ./common: 20 MiB
MB20 == 20971520

\* 1.0 ms
OneMs == 10

Abs(x) == IF x < 0 THEN 0 - x ELSE x

\* the detection modes a caller passes: the three of DETECTIONMODE and two
\* values that are none of them
DetModes == 0..4

DetSizes == {100, MB20 - 1, MB20, 25000000}

DetMtimes == {9950, 9990, 9996, 10000, 10004, 10009, 10010, 10050}

\* (the callback with the mtime tolerance taken as > 1.0 instead of >= 1.0)
StatThenLoose(this, newStats, detectionMode) ==
  IF this.size # newStats.size THEN "modified"
  ELSE IF Abs(this.mtimeMs - newStats.mtimeMs) > OneMs
       THEN IF detectionMode = ONLY_SIZE_AND_MKTIME THEN "modified"
            ELSE IF detectionMode = SIZE_AND_HASH_FOR_SMALL_FILES /\ this.size >= MB20
                 THEN "modified"
                 ELSE "hash"
       ELSE "unmodified"

\* the callback of io.stat(filepath).then: "modified", "unmodified", or
\* "hash" when it goes on to getPartHash
StatThen(this, newStats, detectionMode) ==
  IF this.size # newStats.size THEN "modified"
  ELSE IF Abs(this.mtimeMs - newStats.mtimeMs) >= OneMs
       THEN IF detectionMode = ONLY_SIZE_AND_MKTIME THEN "modified"
            ELSE IF detectionMode = SIZE_AND_HASH_FOR_SMALL_FILES /\ this.size >= MB20
                 THEN "modified"
                 ELSE "hash"
       ELSE "unmodified"

InitDetect ==
  \E size \in DetSizes, liveSize \in DetSizes \cup {200}, liveMtime \in DetMtimes,
     hash \in 1..MaxHash, liveHash \in 1..MaxHash, mode \in DetModes :
    /\ det = [pc |-> "stat",
              this |-> [size |-> size, mtimeMs |-> 10000, hash |-> <<hash>>],
              disk |-> [size |-> liveSize, mtimeMs |-> liveMtime, hash |-> <<liveHash>>],
              mode |-> mode,
              modified |-> FALSE,
              hashRead |-> FALSE]
    /\ op = "detect"
    /\ result = NULL
    /\ heap = EmptyHeap
    /\ heap0 = EmptyHeap
    /\ srcRoot = NULL
    /\ tgtRoot = NULL
    /\ fs = [d |-> << >>, junk |-> FALSE]
    /\ tree = NULL
    /\ walkP = << >>
    /\ statP = << >>
    /\ ioFailed = {}

\* io.stat(filepath) is fulfilled with the live stats
DetectStatOk ==
  /\ op = "detect"
  /\ det.pc = "stat"
  /\ LET r == StatThen(det.this, det.disk, det.mode)
     IN  det' = IF r = "hash"
                THEN [det EXCEPT !.pc = "hash", !.hashRead = TRUE]
                ELSE [det EXCEPT !.pc = "done", !.modified = (r = "modified")]
  /\ UNCHANGED <<heap, op, result, mergeVars, buildVars>>

\* io.stat(filepath) is rejected
DetectStatFail ==
  /\ op = "detect"
  /\ det.pc = "stat"
  /\ det' = [det EXCEPT !.pc = "failed"]
  /\ UNCHANGED <<heap, op, result, mergeVars, buildVars>>

\* getPartHash(filepath) is fulfilled with the digest of the live content
DetectHashOk ==
  /\ op = "detect"
  /\ det.pc = "hash"
  /\ det' = [det EXCEPT !.pc = "done", !.modified = (det.this.hash # det.disk.hash)]
  /\ UNCHANGED <<heap, op, result, mergeVars, buildVars>>

\* getPartHash(filepath) is rejected
DetectHashFail ==
  /\ op = "detect"
  /\ det.pc = "hash"
  /\ det' = [det EXCEPT !.pc = "failed"]
  /\ UNCHANGED <<heap, op, result, mergeVars, buildVars>>

NextDetect == DetectStatOk \/ DetectStatFail \/ DetectHashOk \/ DetectHashFail

SpecDetect == InitDetect /\ [][NextDetect]_vars

(***************************************************************************)
(* C3.  When constructTree is fulfilled, the children of every Directory   *)
(* are in the listing order of readdir (the skipped names left out),       *)
(* whatever the order in which the stats completed.                        *)
(***************************************************************************)
ChildPathsOf(H, d) ==
  [i \in 1..Len(NodeOf(H, d).children) |-> NodeOf(H, NodeOf(H, d).children[i]).path]

ListedPaths(p) == [i \in 1..Len(Listed(p)) |-> Append(p, Listed(p)[i])]

C3_ChildrenInListingOrder ==
  (op = "build" /\ walkP[tree] = "resolved") =>
    \A d \in Reach(heap, tree) :
      isDirectory(heap, d) => ChildPathsOf(heap, d) = ListedPaths(NodeOf(heap, d).path)

(***************************************************************************)
(* C7.  Once any readdir or stat of the walk has failed, the top-level     *)
(* constructTree promise is rejected, and it is never fulfilled with a     *)
(* tree, whatever the other outstanding calls do afterwards.               *)
(***************************************************************************)
C7_FailsAsWhole ==
  (op = "build" /\ ioFailed # {}) => (walkP[tree] = "rejected" /\ result = NULL)

\* a failure two levels down, with an entry of the root fulfilled besides
C7_Witness ==
  /\ op = "build"
  /\ walkP[tree] = "rejected"
  /\ \E p \in ioFailed : Len(p) = 2
  /\ \E q \in DOMAIN statP : Len(q) = 1 /\ statP[q].st = "resolved"

(***************************************************************************)
(* C9.  constructTree is a join-all: when it is fulfilled no readdir, stat *)
(* or sub-walk is outstanding, every listed entry is in the tree, and      *)
(* every Directory of the tree has the sum of its children's sizes as its  *)
(* size.                                                                   *)
(***************************************************************************)
SetOf(seq) == {seq[i] : i \in 1..Len(seq)}

C9_JoinAll ==
  (op = "build" /\ walkP[tree] = "resolved") =>
    /\ \A d \in DOMAIN walkP : walkP[d] = "resolved"
    /\ \A p \in DOMAIN statP : statP[p].st = "resolved"
    /\ \A d \in Reach(heap, tree) :
         isDirectory(heap, d) =>
           /\ SetOf(ChildPathsOf(heap, d)) = SetOf(ListedPaths(NodeOf(heap, d).path))
           /\ StatsOf(heap, d).size = SumSize(heap, NodeOf(heap, d).children)

\* a fulfilled walk of a directory that holds a file and a subdirectory with a
\* file of its own, the subdirectory's stat having completed first
C9_Witness ==
  /\ op = "build"
  /\ result = tree
  /\ walkP[tree] = "resolved"
  /\ Len(NodeOf(heap, tree).children) = 2
  /\ LET c == NodeOf(heap, tree).children[1]
     IN  /\ isDirectory(heap, c)
         /\ Len(NodeOf(heap, c).children) = 1
         /\ StatsOf(heap, c).size # FsStat(NodeOf(heap, c).path).size
         /\ ChildPathsOf(heap, tree) # ListedPaths(<< >>)

\* in the tree under construction every child points back at its Directory
BuildParentsAgree == op = "build" => ParentsAgree(heap, tree)

(***************************************************************************)
(* C4.  isFileModified answers by this table: sizes differ -> modified;    *)
(* else mtimes less than 1 ms apart -> not modified; else mode             *)
(* ONLY_SIZE_AND_MKTIME -> modified; else mode                             *)
(* SIZE_AND_HASH_FOR_SMALL_FILES and size >= 20 MiB -> modified; else      *)
(* (any other mode) modified iff the live content digest differs from the  *)
(* captured hash.  The digest is read in that last case only.              *)
(***************************************************************************)
C4_LastCase ==
  /\ det.disk.size = det.this.size
  /\ ~(Abs(det.this.mtimeMs - det.disk.mtimeMs) < OneMs)
  /\ det.mode # ONLY_SIZE_AND_MKTIME
  /\ ~(det.mode = SIZE_AND_HASH_FOR_SMALL_FILES /\ det.this.size >= MB20)

C4_Table ==
  IF det.disk.size # det.this.size THEN TRUE
  ELSE IF Abs(det.this.mtimeMs - det.disk.mtimeMs) < OneMs THEN FALSE
  ELSE IF det.mode = ONLY_SIZE_AND_MKTIME THEN TRUE
  ELSE IF det.mode = SIZE_AND_HASH_FOR_SMALL_FILES /\ det.this.size >= MB20 THEN TRUE
  ELSE det.disk.hash # det.this.hash

C4_IsFileModifiedTable ==
  op = "detect" =>
    /\ det.pc = "done" => (det.modified = C4_Table /\ det.hashRead = C4_LastCase)
    /\ det.hashRead => C4_LastCase

\* a file just under 20 MiB whose mtime is exactly 1 ms off, in the small-files
\* mode: its content was read and found equal
C4_Witness ==
  /\ op = "detect"
  /\ det.pc = "done"
  /\ det.mode = SIZE_AND_HASH_FOR_SMALL_FILES
  /\ det.this.size = MB20 - 1
  /\ Abs(det.this.mtimeMs - det.disk.mtimeMs) = OneMs
  /\ det.hashRead
  /\ ~det.modified

====
